---- MODULE Spec2Model ----
(***************************************************************************)
(* EmailDatabase (src/email_database.py): one persistent SQLite connection *)
(* over three tables (usuarios, categorias, emails), every mutating method *)
(* wrapped in _transaction (commit on success, rollback and re-raise on    *)
(* an exception), the queries run straight on the connection.              *)
(*                                                                         *)
(* The database file is `disk` (what is committed); `view` is what the     *)
(* live connection sees (committed data plus the writes of its open        *)
(* transaction).  Methods are operators from a store record to an outcome  *)
(* [st, ret, err]; each action applies one method to the variables.        *)
(*                                                                         *)
(* Spec is one caller making one call after the other; SpecSearch and      *)
(* SpecPurge are that caller on a store with searchable bodies and on a    *)
(* clock that moves by days; SpecThreads is two threads on the one         *)
(* connection, a step per statement, their positions in `threads`.         *)
(***************************************************************************)
EXTENDS Integers, Sequences, FiniteSets, TLC

VARIABLES conn, fk, disk, view, now, last, threads

vars == <<conn, fk, disk, view, now, last, threads>>

-----------------------------------------------------------------------------
(* Bounds of the model *)

MaxUsers == 1
MaxCategories == 2
MaxEmails == 2
\* the clock runs in ticks finer than the one-second resolution of SQLite's
\* CURRENT_TIMESTAMP / datetime('now')
TicksPerSecond == 2
MaxTicks == 2
\* largest limit a query is called with; -1 .. MaxLimit are tried
MaxLimit == 2
\* stand-in for the default `limit=50` of buscar_emails, scaled so that a
\* store of MaxEmails rows can hold more rows than the default returns
DefaultLimit == 1

SecondsPerDay == 86400
TicksPerDay == SecondsPerDay * TicksPerSecond
\* whole days the clock is let jump ahead
MaxDays == 1

-----------------------------------------------------------------------------
(* Optional values: Python None / SQL NULL is <<>>, a value x is <<x>> *)

None == <<>>
Some(x) == <<x>>
IsNone(o) == o = <<>>
Val(o) == o[1]

Nomes == {"u"}
Enderecos == {"u@x"}
Remetentes == {"r"}
Destinatarios == {"a"}
\* texts are sequences of characters
Assuntos == {<<"s">>}
Corpos == {<<>>}
\* bodies and search texts of the searches by text
CorposBusca == {<<>>, <<"b">>, <<"a", "b">>}
Textos == {<<>>, <<"s">>, <<"b">>, <<"B">>, <<"_">>, <<"%">>}
CategoryNames == {"W"}
CorPadrao == "#007bff"

\* arguments the callers pass
CategoriaArgs == {None} \cup {Some(c) : c \in 0..MaxCategories}
DestinatarioArgs == {None, Some(""), Some("b")} \cup {Some(d) : d \in Destinatarios}
LidoArgs == {None, Some(TRUE), Some(FALSE)}
Limits == (-1)..MaxLimit
IdArgs == 1..(MaxEmails + 1)
DiasArgs == {-1, 0, 1}

-----------------------------------------------------------------------------
(* The schema (database_schema.sql, loaded by init_database) *)

EmptyDb ==
    [usuarios |-> {}, categorias |-> {}, emails |-> {},
     seq |-> [usuarios |-> 0, categorias |-> 0, emails |-> 0]]

\* DEFAULT CURRENT_TIMESTAMP: the clock cut to whole seconds
CurrentTimestamp(t) == t \div TicksPerSecond

\* INTEGER PRIMARY KEY AUTOINCREMENT: ids are never reused
Autoincrement(n) == n + 1

\* the column defaults of emails
EmailDefaults(t) == [data_envio |-> CurrentTimestamp(t), flag |-> 0]

\* FOREIGN KEY (categoria_id) REFERENCES categorias(id)
ReferencesCategoria(db, categoria_id) ==
    IsNone(categoria_id) \/ \E c \in db.categorias : c.id = Val(categoria_id)

Ids(rows) == {r.id : r \in rows}

\* python's `1 if flag else 0`
Bit(b) == IF b THEN 1 ELSE 0

-----------------------------------------------------------------------------
(* Connection and transaction *)

Store == [conn |-> conn, fk |-> fk, disk |-> disk, view |-> view]

\* __init__ before init_database: no connection
Construct == [conn |-> FALSE, fk |-> FALSE, disk |-> EmptyDb, view |-> EmptyDb]

\* a connection opened on a fresh database instead of the file at db_path
get_connection_fresh(s) ==
    IF ~s.conn
    THEN [s EXCEPT !.conn = TRUE, !.fk = TRUE, !.view = EmptyDb]
    ELSE s

\* a connection opened without PRAGMA foreign_keys = ON (SQLite's default)
get_connection_no_pragma(s) ==
    IF ~s.conn
    THEN [s EXCEPT !.conn = TRUE, !.fk = FALSE, !.view = s.disk]
    ELSE s

get_connection(s) ==
    IF ~s.conn
    THEN [s EXCEPT !.conn = TRUE, !.fk = TRUE, !.view = s.disk]
    ELSE s

commit(s, work) == [s EXCEPT !.disk = work, !.view = work]

\* a rollback that is skipped: the failed call's writes stay in the connection
rollback_skipped(s, work) == [s EXCEPT !.view = work]

rollback(s, work) == [s EXCEPT !.view = s.disk]

\* x is the executed statement: [db, ret, err]; io: the storage raises
\* (at the statement or at the commit)
transaction(s, x, io) ==
    IF x.err \/ io
    THEN [st |-> rollback(s, x.db), ret |-> None, err |-> TRUE]
    ELSE [st |-> commit(s, x.db), ret |-> Some(x.ret), err |-> FALSE]

\* a constructor that leaves the schema to the first call
init_database_lazy(s0) == s0

init_database(s0) == transaction(get_connection(s0), [db |-> EmptyDb, ret |-> 0, err |-> FALSE], FALSE).st

fechar_conexao(s) ==
    IF s.conn
    THEN [s EXCEPT !.conn = FALSE, !.fk = FALSE, !.view = s.disk]
    ELSE s

\* __enter__ returns the store itself
enter(s) == s

\* an __exit__ that closes only when the body has not raised
exit_leaking(s, exc) ==
    [st |-> IF exc THEN s ELSE fechar_conexao(s), raised |-> exc]

\* __exit__(exc_type, exc_val, exc_tb): closes and returns None, so an
\* exception of the with-body (exc) is raised again
exit(s, exc) == [st |-> fechar_conexao(s), raised |-> exc]

-----------------------------------------------------------------------------
(* The SQL statements, on the connection's view: [db, ret, err] *)

Ok(db, ret) == [db |-> db, ret |-> ret, err |-> FALSE]
Raise(db) == [db |-> db, ret |-> 0, err |-> TRUE]

\* INSERT INTO usuarios (nome, email); ret is cursor.lastrowid
InsertUsuario(db, nome, email) ==
    LET id == Autoincrement(db.seq.usuarios)
    IN  Ok([db EXCEPT !.usuarios = @ \cup {[id |-> id, nome |-> nome, email |-> email]},
                      !.seq.usuarios = id], id)

\* INSERT INTO categorias (nome, descricao, cor)
InsertCategoria(db, nome, descricao, cor) ==
    LET id == Autoincrement(db.seq.categorias)
    IN  Ok([db EXCEPT !.categorias = @ \cup {[id |-> id, nome |-> nome,
                                              descricao |-> descricao, cor |-> cor]},
                      !.seq.categorias = id], id)

\* the INSERT with remetente and destinatario bound in the wrong order
InsertEmail_swapped(db, fkOn, t, remetente, destinatario, assunto, corpo, categoria_id) ==
    LET id == Autoincrement(db.seq.emails)
        row == [id |-> id, remetente |-> destinatario, destinatario |-> remetente,
                assunto |-> assunto, corpo |-> corpo, categoria_id |-> categoria_id,
                data_envio |-> EmailDefaults(t).data_envio,
                lido |-> EmailDefaults(t).flag, importante |-> EmailDefaults(t).flag,
                arquivado |-> EmailDefaults(t).flag]
    IN  IF fkOn /\ ~ReferencesCategoria(db, categoria_id)
        THEN Raise(db)
        ELSE Ok([db EXCEPT !.emails = @ \cup {row}, !.seq.emails = id], id)

\* INSERT INTO emails (remetente, destinatario, assunto, corpo, categoria_id);
\* data_envio, lido, importante, arquivado take the schema defaults; with
\* PRAGMA foreign_keys = ON a categoria_id that is no categorias.id raises
InsertEmail(db, fkOn, t, remetente, destinatario, assunto, corpo, categoria_id) ==
    LET id == Autoincrement(db.seq.emails)
        row == [id |-> id, remetente |-> remetente, destinatario |-> destinatario,
                assunto |-> assunto, corpo |-> corpo, categoria_id |-> categoria_id,
                data_envio |-> EmailDefaults(t).data_envio,
                lido |-> EmailDefaults(t).flag, importante |-> EmailDefaults(t).flag,
                arquivado |-> EmailDefaults(t).flag]
    IN  IF fkOn /\ ~ReferencesCategoria(db, categoria_id)
        THEN Raise(db)
        ELSE Ok([db EXCEPT !.emails = @ \cup {row}, !.seq.emails = id], id)

Matching(db, email_id) == {e \in db.emails : e.id = email_id}

\* UPDATE emails SET lido = 1, data_envio = <a later time> WHERE id = ?
UpdateLido_touching(db, email_id) ==
    Ok([db EXCEPT !.emails = {IF e.id = email_id
                              THEN [e EXCEPT !.lido = 1, !.data_envio = @ + 1]
                              ELSE e : e \in @}],
       Cardinality(Matching(db, email_id)))

\* UPDATE emails SET lido = 1 WHERE id = ?; ret is cursor.rowcount
UpdateLido(db, email_id) ==
    Ok([db EXCEPT !.emails = {IF e.id = email_id THEN [e EXCEPT !.lido = 1] ELSE e : e \in @}],
       Cardinality(Matching(db, email_id)))

\* UPDATE emails SET importante = ?, lido = ? WHERE id = ?
UpdateImportante_and_lido(db, email_id, bit) ==
    Ok([db EXCEPT !.emails = {IF e.id = email_id
                              THEN [e EXCEPT !.importante = bit, !.lido = bit]
                              ELSE e : e \in @}],
       Cardinality(Matching(db, email_id)))

\* UPDATE emails SET importante = ? WHERE id = ?
UpdateImportante(db, email_id, bit) ==
    Ok([db EXCEPT !.emails = {IF e.id = email_id THEN [e EXCEPT !.importante = bit] ELSE e : e \in @}],
       Cardinality(Matching(db, email_id)))

\* UPDATE emails SET arquivado = 1 - arquivado WHERE id = ?
UpdateArquivado_toggling(db, email_id) ==
    Ok([db EXCEPT !.emails = {IF e.id = email_id THEN [e EXCEPT !.arquivado = 1 - @] ELSE e : e \in @}],
       Cardinality(Matching(db, email_id)))

\* UPDATE emails SET arquivado = 1 WHERE id = ?
UpdateArquivado(db, email_id) ==
    Ok([db EXCEPT !.emails = {IF e.id = email_id THEN [e EXCEPT !.arquivado = 1] ELSE e : e \in @}],
       Cardinality(Matching(db, email_id)))

\* DELETE FROM emails WHERE id = ?
DeleteEmail(db, email_id) ==
    Ok([db EXCEPT !.emails = @ \ Matching(db, email_id)],
       Cardinality(Matching(db, email_id)))

\* datetime('now', '-{dias} days'): a negative dias formats to the modifier
\* '--1 days', which SQLite rejects: the value is NULL
PurgeThreshold(t, dias) ==
    IF dias < 0 THEN None ELSE Some(CurrentTimestamp(t) - dias * SecondsPerDay)

\* the DELETE with <= in place of <
DeleteOlder_inclusive(db, t, dias) ==
    LET th == PurgeThreshold(t, dias)
        old == IF IsNone(th) THEN {} ELSE {e \in db.emails : e.data_envio <= Val(th)}
    IN  Ok([db EXCEPT !.emails = @ \ old], Cardinality(old))

\* DELETE FROM emails WHERE data_envio < datetime('now', '-{dias} days');
\* a comparison with NULL selects no row
DeleteOlder(db, t, dias) ==
    LET th == PurgeThreshold(t, dias)
        old == IF IsNone(th) THEN {} ELSE {e \in db.emails : e.data_envio < Val(th)}
    IN  Ok([db EXCEPT !.emails = @ \ old], Cardinality(old))

-----------------------------------------------------------------------------
(* The mutating methods: outcome [st, ret, err] of a call on store s0 *)

adicionar_usuario(s0, nome, email, io) ==
    LET s == get_connection(s0)
    IN  transaction(s, InsertUsuario(s.view, nome, email), io)

adicionar_email(s0, t, remetente, destinatario, assunto, corpo, categoria_id, io) ==
    LET s == get_connection(s0)
    IN  transaction(s, InsertEmail(s.view, s.fk, t, remetente, destinatario,
                                   assunto, corpo, categoria_id), io)

adicionar_categoria(s0, nome, descricao, cor, io) ==
    LET s == get_connection(s0)
    IN  transaction(s, InsertCategoria(s.view, nome, descricao, cor), io)

\* `return cursor.rowcount >= 0`
Affected_or_not(x) == [x EXCEPT !.ret = (@ >= 0)]

\* `return cursor.rowcount > 0`
Affected(x) == [x EXCEPT !.ret = (@ > 0)]

marcar_como_lido(s0, email_id, io) ==
    LET s == get_connection(s0)
    IN  transaction(s, Affected(UpdateLido(s.view, email_id)), io)

marcar_importante(s0, email_id, importante, io) ==
    LET s == get_connection(s0)
    IN  transaction(s, Affected(UpdateImportante(s.view, email_id, Bit(importante))), io)

arquivar_email(s0, email_id, io) ==
    LET s == get_connection(s0)
    IN  transaction(s, Affected(UpdateArquivado(s.view, email_id)), io)

deletar_email(s0, email_id, io) ==
    LET s == get_connection(s0)
    IN  transaction(s, Affected(DeleteEmail(s.view, email_id)), io)

limpar_emails_antigos(s0, t, dias, io) ==
    LET s == get_connection(s0)
    IN  transaction(s, DeleteOlder(s.view, t, dias), io)

-----------------------------------------------------------------------------
(* The queries: [st, rets], rets the results the engine may return (rows  *)
(* that tie in the ORDER BY key come in an order SQLite leaves open)       *)

Min(a, b) == IF a < b THEN a ELSE b

\* every arrangement of the rows of S in a sequence
Orderings(S) ==
    {q \in [1..Cardinality(S) -> S] : \A i, j \in 1..Cardinality(S) : i # j => q[i] # q[j]}

\* python truthiness of the optional arguments: `if destinatario:`,
\* `if categoria_id:`, and `if lido is not None:`
TruthyStr(o) == ~IsNone(o) /\ Val(o) # ""
TruthyInt(o) == ~IsNone(o) /\ Val(o) # 0
\* `if lido:` in place of `if lido is not None:`
IsNotNone_truthy(o) == ~IsNone(o) /\ Val(o)

IsNotNone(o) == ~IsNone(o)

\* WHERE 1=1 [AND e.destinatario = ?] [AND e.categoria_id = ?] [AND e.lido = ?]
Where(e, destinatario, categoria_id, lido) ==
    /\ TruthyStr(destinatario) => e.destinatario = Val(destinatario)
    /\ TruthyInt(categoria_id) => e.categoria_id = Some(Val(categoria_id))
    /\ IsNotNone(lido) => e.lido = Bit(Val(lido))

\* SELECT e.*, c.nome as categoria_nome FROM emails e LEFT JOIN categorias c
\*   ON e.categoria_id = c.id
CategoriaNome(db, e) ==
    IF \E c \in db.categorias : Some(c.id) = e.categoria_id
    THEN Some((CHOOSE c \in db.categorias : Some(c.id) = e.categoria_id).nome)
    ELSE None

Joined(db, e) ==
    [id |-> e.id, remetente |-> e.remetente, destinatario |-> e.destinatario,
     assunto |-> e.assunto, corpo |-> e.corpo, categoria_id |-> e.categoria_id,
     data_envio |-> e.data_envio, lido |-> e.lido, importante |-> e.importante,
     arquivado |-> e.arquivado, categoria_nome |-> CategoriaNome(db, e)]

\* ORDER BY e.data_envio ASC
OrderByDataEnvioAsc(rows) ==
    {q \in Orderings(rows) :
        \A i, j \in 1..Len(q) : i < j => q[i].data_envio <= q[j].data_envio}

\* ORDER BY e.data_envio DESC
OrderByDataEnvioDesc(rows) ==
    {q \in Orderings(rows) :
        \A i, j \in 1..Len(q) : i < j => q[i].data_envio >= q[j].data_envio}

\* LIMIT ?: a negative limit is no limit
Limit(q, limit) ==
    IF limit < 0 THEN q ELSE SubSeq(q, 1, Min(limit, Len(q)))

SelectEmails(db, destinatario, categoria_id, lido, limit) ==
    LET rows == {Joined(db, e) : e \in {x \in db.emails :
                                           Where(x, destinatario, categoria_id, lido)}}
    IN  {Limit(q, limit) : q \in OrderByDataEnvioDesc(rows)}

buscar_emails(s0, destinatario, categoria_id, lido, limit) ==
    LET s == get_connection(s0)
    IN  [st |-> s, rets |-> SelectEmails(s.view, destinatario, categoria_id, lido, limit)]

obter_emails_nao_lidos(s0, limit) == buscar_emails(s0, None, None, Some(FALSE), limit)

\* SQLite's LIKE compares ASCII letters without regard to case
Fold(c) ==
    CASE c = "A" -> "a"
      [] c = "B" -> "b"
      [] c = "S" -> "s"
      [] OTHER -> c

\* str LIKE pat: % stands for any run of characters, _ for any one character
RECURSIVE Like(_, _)
Like(str, pat) ==
    IF pat = <<>> THEN str = <<>>
    ELSE IF Head(pat) = "%"
         THEN Like(str, Tail(pat)) \/ (str # <<>> /\ Like(Tail(str), pat))
         ELSE /\ str # <<>>
              /\ (Head(pat) = "_" \/ Fold(Head(pat)) = Fold(Head(str)))
              /\ Like(Tail(str), Tail(pat))

\* f"%{texto}%"
SearchTerm(texto) == <<"%">> \o texto \o <<"%">>

\* WHERE e.assunto LIKE ? OR e.corpo LIKE ? ORDER BY e.data_envio DESC LIMIT ?
SelectPorTexto(db, texto, limit) ==
    LET rows == {Joined(db, e) : e \in {x \in db.emails :
                                           \/ Like(x.assunto, SearchTerm(texto))
                                           \/ Like(x.corpo, SearchTerm(texto))}}
    IN  {Limit(q, limit) : q \in OrderByDataEnvioDesc(rows)}

buscar_emails_por_texto(s0, texto, limit) ==
    LET s == get_connection(s0)
    IN  [st |-> s, rets |-> SelectPorTexto(s.view, texto, limit)]

\* WHERE e.importante = 1 ORDER BY e.data_envio DESC LIMIT ?
SelectImportantes(db, limit) ==
    LET rows == {Joined(db, e) : e \in {x \in db.emails : x.importante = 1}}
    IN  {Limit(q, limit) : q \in OrderByDataEnvioDesc(rows)}

obter_emails_importantes(s0, limit) ==
    LET s == get_connection(s0)
    IN  [st |-> s, rets |-> SelectImportantes(s.view, limit)]

\* the place of a category name in the BINARY collation
Collation(nome) ==
    CASE nome = "P" -> 1
      [] nome = "W" -> 2

\* SELECT * FROM categorias ORDER BY nome
OrderByNome(rows) ==
    {q \in Orderings(rows) :
        \A i, j \in 1..Len(q) : i < j => Collation(q[i].nome) <= Collation(q[j].nome)}

obter_categorias(s0) ==
    LET s == get_connection(s0)
    IN  [st |-> s, rets |-> OrderByNome(s.view.categorias)]

\* SELECT c.nome, COUNT(e.id) as total FROM categorias c LEFT JOIN emails e
\*   ON c.id = e.categoria_id GROUP BY c.id, c.nome ORDER BY total DESC
GroupRows(db) ==
    {[id |-> c.id, nome |-> c.nome,
      total |-> Cardinality({e \in db.emails : e.categoria_id = Some(c.id)})] :
        c \in db.categorias}

OrderByTotalDesc(rows) ==
    {q \in Orderings(rows) : \A i, j \in 1..Len(q) : i < j => q[i].total >= q[j].total}

\* dict(cursor.fetchall()): nome -> total, a later row replacing an earlier
\* row of the same nome
Dict(q) ==
    [n \in {q[i].nome : i \in 1..Len(q)} |->
        LET i == CHOOSE k \in 1..Len(q) :
                    /\ q[k].nome = n
                    /\ \A m \in 1..Len(q) : q[m].nome = n => m <= k
        IN  q[i].total]

Estatisticas(db) ==
    {[total_emails |-> Cardinality(db.emails),
      nao_lidos |-> Cardinality({e \in db.emails : e.lido = 0}),
      importantes |-> Cardinality({e \in db.emails : e.importante = 1}),
      por_categoria |-> Dict(q)] : q \in OrderByTotalDesc(GroupRows(db))}

\* the four SELECTs run inside _transaction: rets are the possible outcomes
obter_estatisticas(s0, io) ==
    LET s == get_connection(s0)
    IN  {transaction(s, Ok(s.view, r), io) : r \in Estatisticas(s.view)}

-----------------------------------------------------------------------------
(* The state machine: one caller that invokes one method at a time.  A    *)
(* call action runs the whole method and leaves in `last` what was called *)
(* and what it returned or raised; Return is the caller taking the result *)
(* and going on to its next call.                                         *)

Idle == [op |-> "none", err |-> FALSE]

\* the single caller of this state machine starts no thread
NoThreads == <<>>

Calling == last.op = "none"

Apply(st) ==
    /\ conn' = st.conn
    /\ fk' = st.fk
    /\ disk' = st.disk
    /\ view' = st.view

\* EmailDatabase(): __init__ runs init_database
Init ==
    LET s == init_database(Construct)
    IN  /\ conn = s.conn
        /\ fk = s.fk
        /\ disk = s.disk
        /\ view = s.view
        /\ now = 0
        /\ last = [op |-> "Construct", err |-> FALSE]
        /\ threads = NoThreads

Return ==
    /\ ~Calling
    /\ last' = Idle
    /\ UNCHANGED <<conn, fk, disk, view, now, threads>>

\* the clock within a day runs up to MaxTicks
Tick ==
    /\ Calling
    /\ now % TicksPerDay < MaxTicks
    /\ now' = now + 1
    /\ UNCHANGED <<conn, fk, disk, view, last, threads>>

AddUser ==
    /\ Calling
    /\ disk.seq.usuarios < MaxUsers
    /\ \E nome \in Nomes, email \in Enderecos, io \in BOOLEAN :
         LET o == adicionar_usuario(Store, nome, email, io)
         IN  /\ Apply(o.st)
             /\ last' = [op |-> "AddUser", err |-> o.err, ret |-> o.ret]
    /\ UNCHANGED <<now, threads>>

AddCategory ==
    /\ Calling
    /\ disk.seq.categorias < MaxCategories
    /\ \E nome \in CategoryNames, io \in BOOLEAN :
         LET o == adicionar_categoria(Store, nome, "", CorPadrao, io)
         IN  /\ Apply(o.st)
             /\ last' = [op |-> "AddCategory", err |-> o.err, ret |-> o.ret]
    /\ UNCHANGED <<now, threads>>

AddEmail ==
    /\ Calling
    /\ disk.seq.emails < MaxEmails
    /\ \E remetente \in Remetentes, destinatario \in Destinatarios,
          assunto \in Assuntos, corpo \in Corpos,
          categoria_id \in CategoriaArgs, io \in BOOLEAN :
         LET o == adicionar_email(Store, now, remetente, destinatario, assunto,
                                  corpo, categoria_id, io)
         IN  /\ Apply(o.st)
             /\ last' = [op |-> "AddEmail", remetente |-> remetente,
                         destinatario |-> destinatario, assunto |-> assunto,
                         corpo |-> corpo, categoria_id |-> categoria_id,
                         reopened |-> ~conn, err |-> o.err, ret |-> o.ret]
    /\ UNCHANGED <<now, threads>>

MarkRead ==
    /\ Calling
    /\ \E email_id \in IdArgs, io \in BOOLEAN :
         LET o == marcar_como_lido(Store, email_id, io)
         IN  /\ Apply(o.st)
             /\ last' = [op |-> "MarkRead", id |-> email_id, err |-> o.err, ret |-> o.ret]
    /\ UNCHANGED <<now, threads>>

MarkImportant ==
    /\ Calling
    /\ \E email_id \in IdArgs, importante \in BOOLEAN, io \in BOOLEAN :
         LET o == marcar_importante(Store, email_id, importante, io)
         IN  /\ Apply(o.st)
             /\ last' = [op |-> "MarkImportant", id |-> email_id, importante |-> importante,
                         err |-> o.err, ret |-> o.ret]
    /\ UNCHANGED <<now, threads>>

Archive ==
    /\ Calling
    /\ \E email_id \in IdArgs, io \in BOOLEAN :
         LET o == arquivar_email(Store, email_id, io)
         IN  /\ Apply(o.st)
             /\ last' = [op |-> "Archive", id |-> email_id, err |-> o.err, ret |-> o.ret]
    /\ UNCHANGED <<now, threads>>

Delete ==
    /\ Calling
    /\ \E email_id \in IdArgs, io \in BOOLEAN :
         LET o == deletar_email(Store, email_id, io)
         IN  /\ Apply(o.st)
             /\ last' = [op |-> "DeleteEmail", id |-> email_id, err |-> o.err, ret |-> o.ret]
    /\ UNCHANGED <<now, threads>>

PurgeOlderThan ==
    /\ Calling
    /\ \E dias \in DiasArgs, io \in BOOLEAN :
         LET o == limpar_emails_antigos(Store, now, dias, io)
         IN  /\ Apply(o.st)
             /\ last' = [op |-> "PurgeOlderThan", dias |-> dias,
                         err |-> o.err, ret |-> o.ret]
    /\ UNCHANGED <<now, threads>>

\* the caller's calls of buscar_emails pass at most one of the three filters
AtMostOneFilter(destinatario, categoria_id, lido) ==
    Cardinality({k \in 1..3 : ~IsNone(<<destinatario, categoria_id, lido>>[k])}) <= 1

FindEmails ==
    /\ Calling
    /\ \E destinatario \in DestinatarioArgs, categoria_id \in CategoriaArgs,
          lido \in LidoArgs, limit \in Limits :
         LET o == buscar_emails(Store, destinatario, categoria_id, lido, limit)
         IN  /\ AtMostOneFilter(destinatario, categoria_id, lido)
             /\ Apply(o.st)
             /\ \E r \in o.rets :
                  last' = [op |-> "FindEmails", destinatario |-> destinatario,
                           categoria_id |-> categoria_id, lido |-> lido,
                           limit |-> limit, err |-> FALSE, ret |-> Some(r)]
    /\ UNCHANGED <<now, threads>>

UnreadEmails ==
    /\ Calling
    /\ \E limit \in Limits :
         LET o == obter_emails_nao_lidos(Store, limit)
         IN  /\ Apply(o.st)
             /\ \E r \in o.rets :
                  last' = [op |-> "UnreadEmails", limit |-> limit,
                           err |-> FALSE, ret |-> Some(r)]
    /\ UNCHANGED <<now, threads>>

Statistics ==
    /\ Calling
    /\ \E io \in BOOLEAN :
         \E o \in obter_estatisticas(Store, io) :
             /\ Apply(o.st)
             /\ last' = [op |-> "Statistics", err |-> o.err, ret |-> o.ret]
    /\ UNCHANGED <<now, threads>>

Close ==
    /\ Calling
    /\ Apply(fechar_conexao(Store))
    /\ last' = [op |-> "Close", wasOpen |-> conn, err |-> FALSE]
    /\ UNCHANGED <<now, threads>>

\* `with EmailDatabase(...) as db:` enters the scope
Enter ==
    /\ Calling
    /\ Apply(enter(Store))
    /\ last' = [op |-> "Enter", err |-> FALSE]
    /\ UNCHANGED <<now, threads>>

\* the scope is left: the body has ended, or it has raised (exc), either by
\* itself or because the call before raised and the body let it through
Exit ==
    /\ \E exc \in BOOLEAN :
         /\ Calling \/ (exc /\ last.err)
         /\ LET o == exit(Store, exc)
            IN  /\ Apply(o.st)
                /\ last' = [op |-> "Exit", exc |-> exc, after |-> last.op,
                            wasOpen |-> conn, err |-> o.raised]
    /\ UNCHANGED <<now, threads>>

SearchEmails ==
    /\ Calling
    /\ \E texto \in Textos, limit \in Limits :
         LET o == buscar_emails_por_texto(Store, texto, limit)
         IN  /\ Apply(o.st)
             /\ \E r \in o.rets :
                  last' = [op |-> "SearchEmails", texto |-> texto, limit |-> limit,
                           err |-> FALSE, ret |-> Some(r)]
    /\ UNCHANGED <<now, threads>>

ImportantEmails ==
    /\ Calling
    /\ \E limit \in Limits :
         LET o == obter_emails_importantes(Store, limit)
         IN  /\ Apply(o.st)
             /\ \E r \in o.rets :
                  last' = [op |-> "ImportantEmails", limit |-> limit,
                           err |-> FALSE, ret |-> Some(r)]
    /\ UNCHANGED <<now, threads>>

ListCategories ==
    /\ Calling
    /\ LET o == obter_categorias(Store)
       IN  /\ Apply(o.st)
           /\ \E r \in o.rets :
                last' = [op |-> "ListCategories", err |-> FALSE, ret |-> Some(r)]
    /\ UNCHANGED <<now, threads>>

Next ==
    \/ Return
    \/ Tick
    \/ AddUser
    \/ AddCategory
    \/ AddEmail
    \/ MarkRead
    \/ MarkImportant
    \/ Archive
    \/ Delete
    \/ PurgeOlderThan
    \/ FindEmails
    \/ UnreadEmails
    \/ Statistics
    \/ Close
    \/ Enter
    \/ Exit
    \/ SearchEmails
    \/ ImportantEmails
    \/ ListCategories

Spec == Init /\ [][Next]_vars

-----------------------------------------------------------------------------
(* The store searched by text: emails with bodies that hold the search    *)
(* texts, and wildcard characters as texts                                *)

AddEmailText ==
    /\ Calling
    /\ disk.seq.emails < MaxEmails
    /\ \E remetente \in Remetentes, destinatario \in Destinatarios,
          assunto \in Assuntos, corpo \in CorposBusca :
         LET o == adicionar_email(Store, now, remetente, destinatario, assunto,
                                  corpo, None, FALSE)
         IN  /\ Apply(o.st)
             /\ last' = [op |-> "AddEmail", remetente |-> remetente,
                         destinatario |-> destinatario, assunto |-> assunto,
                         corpo |-> corpo, categoria_id |-> None,
                         reopened |-> ~conn, err |-> o.err, ret |-> o.ret]
    /\ UNCHANGED <<now, threads>>

NextSearch ==
    \/ Return
    \/ Tick
    \/ AddEmailText
    \/ Delete
    \/ SearchEmails

SpecSearch == Init /\ [][NextSearch]_vars

-----------------------------------------------------------------------------
(* The store over days: the calls that fill the store and the purge, with *)
(* a clock that also moves by whole days                                  *)

DayPasses ==
    /\ Calling
    /\ now \div TicksPerDay < MaxDays
    /\ now' = now + TicksPerDay
    /\ UNCHANGED <<conn, fk, disk, view, last, threads>>

NextPurge ==
    \/ Return
    \/ Tick
    \/ DayPasses
    \/ AddUser
    \/ AddCategory
    \/ AddEmail
    \/ PurgeOlderThan

SpecPurge == Init /\ [][NextPurge]_vars

-----------------------------------------------------------------------------
(* Threads sharing one store.  The connection is opened with              *)
(* check_same_thread=False, so every thread works on the same connection  *)
(* and on its one open transaction: a statement of any thread writes to   *)
(* `view`, a commit of any thread makes all of `view` durable, a rollback *)
(* of any thread drops every write that is not committed.  A thread can   *)
(* be preempted between the statements of a method, so each statement,    *)
(* the commit and the rollback of _transaction is a step of its own.      *)

MaxCalls == 2
ThreadIds == {1, 2}

IdleThread(calls) == [pc |-> "idle", calls |-> calls]

\* the threads are started on the constructed store
InitThreads ==
    LET s == init_database(Construct)
    IN  /\ conn = s.conn
        /\ fk = s.fk
        /\ disk = s.disk
        /\ view = s.view
        /\ now = 0
        /\ last = Idle
        /\ threads = [t \in ThreadIds |-> IdleThread(0)]

\* adicionar_email up to the end of the with-body: the INSERT has run on the
\* shared connection; a statement that raises leaves no write of its own
ExecuteAddEmail(t) ==
    /\ threads[t].pc = "idle"
    /\ threads[t].calls < MaxCalls
    /\ view.seq.emails < MaxEmails
    /\ \E remetente \in Remetentes, destinatario \in Destinatarios,
          assunto \in Assuntos, corpo \in Corpos,
          categoria_id \in CategoriaArgs, io \in BOOLEAN :
         LET s == get_connection(Store)
             x == InsertEmail(s.view, s.fk, now, remetente, destinatario,
                              assunto, corpo, categoria_id)
         IN  IF x.err \/ io
             THEN /\ Apply(s)
                  /\ threads' = [threads EXCEPT ![t] =
                         [pc |-> "except", op |-> "AddEmail", calls |-> @.calls + 1,
                          ret |-> None]]
             ELSE /\ Apply([s EXCEPT !.view = x.db])
                  /\ threads' = [threads EXCEPT ![t] =
                         [pc |-> "commit", op |-> "AddEmail", calls |-> @.calls + 1,
                          ret |-> Some(x.ret)]]
    /\ UNCHANGED <<now, last>>

\* the calls of the one-statement queries a thread makes
ThreadQueries(s) ==
    [FindEmails |-> buscar_emails(s, None, None, None, DefaultLimit),
     UnreadEmails |-> obter_emails_nao_lidos(s, DefaultLimit),
     ImportantEmails |-> obter_emails_importantes(s, DefaultLimit),
     SearchEmails |-> buscar_emails_por_texto(s, <<"s">>, DefaultLimit),
     ListCategories |-> obter_categorias(s)]

\* a query of one SELECT: it runs on the shared connection in one step
RunQuery(t) ==
    /\ threads[t].pc = "idle"
    /\ threads[t].calls < MaxCalls
    /\ \E q \in DOMAIN ThreadQueries(Store) :
         LET o == ThreadQueries(Store)[q]
         IN  /\ Apply(o.st)
             /\ \E r \in o.rets :
                  threads' = [threads EXCEPT ![t] =
                      [pc |-> "done", op |-> q, calls |-> @.calls + 1,
                       ret |-> Some(r), err |-> FALSE]]
    /\ UNCHANGED <<now, last>>

\* the four SELECTs of obter_estatisticas, one step each; `seen` keeps the
\* database each SELECT read
TotalEmails(db) == Cardinality(db.emails)
NaoLidos(db) == Cardinality({e \in db.emails : e.lido = 0})
Importantes(db) == Cardinality({e \in db.emails : e.importante = 1})
PorCategoria(db) == {Dict(q) : q \in OrderByTotalDesc(GroupRows(db))}

CountTotal(t) ==
    /\ threads[t].pc = "idle"
    /\ threads[t].calls < MaxCalls
    /\ LET s == get_connection(Store)
       IN  /\ Apply(s)
           /\ threads' = [threads EXCEPT ![t] =
                  [pc |-> "nao_lidos", op |-> "Statistics", calls |-> @.calls + 1,
                   total_emails |-> TotalEmails(s.view), seen |-> {s.view}]]
    /\ UNCHANGED <<now, last>>

CountNaoLidos(t) ==
    /\ threads[t].pc = "nao_lidos"
    /\ threads' = [threads EXCEPT ![t] =
           [pc |-> "importantes", op |-> "Statistics", calls |-> @.calls,
            total_emails |-> @.total_emails, nao_lidos |-> NaoLidos(view),
            seen |-> @.seen \cup {view}]]
    /\ UNCHANGED <<conn, fk, disk, view, now, last>>

CountImportantes(t) ==
    /\ threads[t].pc = "importantes"
    /\ threads' = [threads EXCEPT ![t] =
           [pc |-> "por_categoria", op |-> "Statistics", calls |-> @.calls,
            total_emails |-> @.total_emails, nao_lidos |-> @.nao_lidos,
            importantes |-> Importantes(view), seen |-> @.seen \cup {view}]]
    /\ UNCHANGED <<conn, fk, disk, view, now, last>>

GroupPorCategoria(t) ==
    /\ threads[t].pc = "por_categoria"
    /\ \E d \in PorCategoria(view) :
         threads' = [threads EXCEPT ![t] =
             [pc |-> "commit", op |-> "Statistics", calls |-> @.calls,
              seen |-> @.seen \cup {view},
              ret |-> Some([total_emails |-> @.total_emails, nao_lidos |-> @.nao_lidos,
                            importantes |-> @.importantes, por_categoria |-> d])]]
    /\ UNCHANGED <<conn, fk, disk, view, now, last>>

\* conn.commit() of _transaction: everything the connection holds becomes
\* durable; a commit that raises goes on to the except branch
Commit(t) ==
    /\ threads[t].pc = "commit"
    /\ \E io \in BOOLEAN :
         IF io
         THEN /\ threads' = [threads EXCEPT ![t] =
                     [pc |-> "except", op |-> @.op, calls |-> @.calls, ret |-> None]]
              /\ UNCHANGED <<conn, fk, disk, view>>
         ELSE /\ Apply(commit(Store, view))
              /\ threads' = [threads EXCEPT ![t] =
                     [pc |-> "done", op |-> @.op, calls |-> @.calls, ret |-> @.ret,
                      err |-> FALSE]]
    /\ UNCHANGED <<now, last>>

\* except: conn.rollback(); raise
Rollback(t) ==
    /\ threads[t].pc = "except"
    /\ Apply(rollback(Store, view))
    /\ threads' = [threads EXCEPT ![t] =
           [pc |-> "done", op |-> @.op, calls |-> @.calls, ret |-> None, err |-> TRUE]]
    /\ UNCHANGED <<now, last>>

\* the thread takes the result and goes on to its next call
ThreadReturn(t) ==
    /\ threads[t].pc = "done"
    /\ threads' = [threads EXCEPT ![t] = IdleThread(@.calls)]
    /\ UNCHANGED <<conn, fk, disk, view, now, last>>

NextThreads ==
    \E t \in ThreadIds :
        \/ ExecuteAddEmail(t)
        \/ RunQuery(t)
        \/ CountTotal(t)
        \/ CountNaoLidos(t)
        \/ CountImportantes(t)
        \/ GroupPorCategoria(t)
        \/ Commit(t)
        \/ Rollback(t)
        \/ ThreadReturn(t)

SpecThreads == InitThreads /\ [][NextThreads]_vars

-----------------------------------------------------------------------------
(* Claims *)

MutatingOps == {"AddUser", "AddEmail", "AddCategory", "MarkRead", "MarkImportant",
                "Archive", "DeleteEmail", "PurgeOlderThan"}
FlagOps == {"MarkRead", "MarkImportant", "Archive"}
ByIdOps == FlagOps \cup {"DeleteEmail"}

\* C1: a mutating call that raises leaves the committed database exactly as
\* it was before the call, and leaves nothing of its work in the connection:
\* what later calls see is the database of before the failed call.
C1_FailedCallRolledBack ==
    [][(last'.op \in MutatingOps /\ last'.err) => (disk' = disk /\ view' = disk)]_vars

\* a DeleteEmail of a stored email has raised, and the email is still stored
C1_Witness ==
    /\ last.op = "DeleteEmail"
    /\ last.err
    /\ last.id \in Ids(disk.emails)
    /\ view = disk

ForeignKeysHold(db) ==
    \A e \in db.emails :
        IsNone(e.categoria_id) \/ Val(e.categoria_id) \in Ids(db.categorias)

\* C2: every stored email's categoria_id is NULL or the id of a stored
\* category, and an AddEmail whose categoria_id is set but is no stored
\* category's id raises and adds no row, also on a connection that the call
\* had to reopen.
C2_ForeignKeyEnforced ==
    /\ [](ForeignKeysHold(disk) /\ ForeignKeysHold(view))
    /\ [][(/\ last'.op = "AddEmail"
           /\ Calling
           /\ ~IsNone(last'.categoria_id)
           /\ Val(last'.categoria_id) \notin Ids(disk.categorias))
          => (last'.err /\ disk' = disk /\ view' = disk)]_vars

\* after Close, an AddEmail naming a category id that does not exist (while
\* another category does) has reopened the connection and raised
C2_Witness ==
    /\ last.op = "AddEmail"
    /\ last.reopened
    /\ last.err
    /\ last.categoria_id = Some(2)
    /\ Ids(disk.categorias) = {1}
    /\ disk.emails # {}

Tables(db) == <<db.usuarios, db.categorias, db.emails>>

\* the outcome of the by-id method `op` when the storage does not fail
ByIdOutcome(op, s, email_id, importante) ==
    CASE op = "MarkRead" -> marcar_como_lido(s, email_id, FALSE)
      [] op = "MarkImportant" -> marcar_importante(s, email_id, importante, FALSE)
      [] op = "Archive" -> arquivar_email(s, email_id, FALSE)
      [] op = "DeleteEmail" -> deletar_email(s, email_id, FALSE)

\* C3: MarkRead, MarkImportant, Archive and DeleteEmail on an id no stored
\* email has return false, do not raise (the storage working) and leave all
\* three tables as they were; on the id of a stored email they return true.
C3_NotFoundIsNoOp ==
    /\ [](Calling =>
            \A op \in ByIdOps, email_id \in IdArgs, importante \in BOOLEAN :
              LET o == ByIdOutcome(op, Store, email_id, importante)
              IN  /\ ~o.err
                  /\ o.ret = Some(email_id \in Ids(disk.emails))
                  /\ email_id \notin Ids(disk.emails) => Tables(o.st.disk) = Tables(disk))
    /\ [][(last'.op \in ByIdOps /\ Calling)
          => /\ ~last'.err => last'.ret = Some(last'.id \in Ids(disk.emails))
             /\ last'.id \notin Ids(disk.emails)
                  => (Tables(disk') = Tables(disk) /\ view' = disk)]_vars

\* an Archive of an id that is not stored returned false while emails are stored
C3_Witness ==
    /\ last.op = "Archive"
    /\ ~last.err
    /\ last.ret = Some(FALSE)
    /\ last.id \notin Ids(disk.emails)
    /\ disk.emails # {}

ResultRows(ret) == {Val(ret)[i] : i \in 1..Len(Val(ret))}

\* C4: the emails FindEmails returns satisfy every criterion whose argument
\* is not null: the recipient, the category reference, the read flag.
C4_NonNullCriteriaApply ==
    last.op = "FindEmails" =>
        \A r \in ResultRows(last.ret) :
            /\ ~IsNone(last.destinatario) => r.destinatario = Val(last.destinatario)
            /\ ~IsNone(last.categoria_id) => r.categoria_id = last.categoria_id
            /\ ~IsNone(last.lido) => r.lido = Bit(Val(last.lido))

RECURSIVE SumOf(_, _)
SumOf(f, keys) ==
    IF keys = {} THEN 0
    ELSE LET k == CHOOSE x \in keys : TRUE
         IN  f[k] + SumOf(f, keys \ {k})

\* C5: Statistics returns total_emails = unread + number of read emails, a
\* per-category mapping whose counts add up to the number of emails that
\* have a category, and one entry per stored category, 0 for a category no
\* email references.
C5_StatisticsConsistent ==
    (last.op = "Statistics" /\ ~last.err) =>
        LET r == Val(last.ret)
            m == r.por_categoria
        IN  /\ r.total_emails = r.nao_lidos + Cardinality({e \in disk.emails : e.lido = 1})
            /\ SumOf(m, DOMAIN m) = Cardinality({e \in disk.emails : ~IsNone(e.categoria_id)})
            /\ Cardinality(DOMAIN m) = Cardinality(disk.categorias)
            /\ \A c \in disk.categorias :
                 /\ c.nome \in DOMAIN m
                 /\ (\A e \in disk.emails : e.categoria_id # Some(c.id)) => m[c.nome] = 0

\* two outcomes agree: same result or error, same store afterwards
Same(a, b) == a.ret = b.ret /\ a.err = b.err /\ a.st = b.st

\* C6: Close on a closed store changes nothing, Close never touches the
\* database file, and every method called on the closed store reopens the
\* connection and gives the result, and leaves the store, it would have
\* given and left had the store not been closed.
C6_CloseIsTransparent ==
    Calling =>
      LET open == get_connection(Store)
          closed == fechar_conexao(Store)
      IN  /\ ~closed.conn
          /\ closed.disk = disk
          /\ fechar_conexao(closed) = closed
          /\ \A io \in BOOLEAN :
               /\ \A nome \in Nomes, email \in Enderecos :
                    Same(adicionar_usuario(closed, nome, email, io),
                         adicionar_usuario(open, nome, email, io))
               /\ \A nome \in CategoryNames :
                    Same(adicionar_categoria(closed, nome, "", CorPadrao, io),
                         adicionar_categoria(open, nome, "", CorPadrao, io))
               /\ \A remetente \in Remetentes, destinatario \in Destinatarios,
                     assunto \in Assuntos, corpo \in Corpos, categoria_id \in CategoriaArgs :
                    Same(adicionar_email(closed, now, remetente, destinatario, assunto,
                                         corpo, categoria_id, io),
                         adicionar_email(open, now, remetente, destinatario, assunto,
                                         corpo, categoria_id, io))
               /\ \A email_id \in IdArgs :
                    /\ Same(marcar_como_lido(closed, email_id, io),
                            marcar_como_lido(open, email_id, io))
                    /\ Same(arquivar_email(closed, email_id, io),
                            arquivar_email(open, email_id, io))
                    /\ Same(deletar_email(closed, email_id, io),
                            deletar_email(open, email_id, io))
                    /\ \A importante \in BOOLEAN :
                         Same(marcar_importante(closed, email_id, importante, io),
                              marcar_importante(open, email_id, importante, io))
               /\ \A dias \in DiasArgs :
                    Same(limpar_emails_antigos(closed, now, dias, io),
                         limpar_emails_antigos(open, now, dias, io))
               /\ obter_estatisticas(closed, io) = obter_estatisticas(open, io)
          /\ \A destinatario \in DestinatarioArgs, categoria_id \in CategoriaArgs,
                lido \in LidoArgs, limit \in Limits :
               buscar_emails(closed, destinatario, categoria_id, lido, limit)
                 = buscar_emails(open, destinatario, categoria_id, lido, limit)

\* an AddEmail called on the closed store reopened it and added a second email
C6_Witness ==
    /\ last.op = "AddEmail"
    /\ last.reopened
    /\ ~last.err
    /\ conn
    /\ Cardinality(disk.emails) = 2

\* e2 is e1 but for the flag the method sets
SameButFlag(op, e1, e2) ==
    CASE op = "MarkRead" -> [e2 EXCEPT !.lido = e1.lido] = e1
      [] op = "MarkImportant" -> [e2 EXCEPT !.importante = e1.importante] = e1
      [] op = "Archive" -> [e2 EXCEPT !.arquivado = e1.arquivado] = e1

FlagOf(op, e) ==
    CASE op = "MarkRead" -> e.lido
      [] op = "MarkImportant" -> e.importante
      [] op = "Archive" -> e.arquivado

\* C7: a MarkRead, MarkImportant or Archive that returns changes nothing but
\* its own flag of the email with the given id: that flag becomes 1 (for
\* MarkImportant, 1 or 0 as asked, so that true then false ends at 0); the
\* other flags and fields of that email, every other email, the categories
\* and the users stay as they were.
C7_OnlyOwnFlagChanges ==
    [][(last'.op \in FlagOps /\ Calling /\ ~last'.err)
       => /\ disk'.usuarios = disk.usuarios
          /\ disk'.categorias = disk.categorias
          /\ disk'.seq = disk.seq
          /\ Ids(disk'.emails) = Ids(disk.emails)
          /\ \A e1 \in disk.emails, e2 \in disk'.emails :
               e1.id = e2.id =>
                 IF e1.id = last'.id
                 THEN /\ SameButFlag(last'.op, e1, e2)
                      /\ FlagOf(last'.op, e2) =
                           (IF last'.op = "MarkImportant" THEN Bit(last'.importante) ELSE 1)
                 ELSE e2 = e1]_vars

\* MarkImportant(id, false) returned true on an email that is read and
\* archived, next to another email that is marked important
C7_Witness ==
    /\ last.op = "MarkImportant"
    /\ ~last.err
    /\ last.ret = Some(TRUE)
    /\ ~last.importante
    /\ \E e \in disk.emails :
         e.id = last.id /\ e.lido = 1 /\ e.arquivado = 1 /\ e.importante = 0
    /\ \E e \in disk.emails : e.id # last.id /\ e.importante = 1

\* the record of the email the last AddEmail added, as a query returns it
RoundTrip(r) ==
    /\ Some(r.id) = last.ret
    /\ r.remetente = last.remetente
    /\ r.destinatario = last.destinatario
    /\ r.assunto = last.assunto
    /\ r.corpo = last.corpo
    /\ r.categoria_id = last.categoria_id
    /\ r.lido = 0 /\ r.importante = 0 /\ r.arquivado = 0

\* C8 as claimed: right after an AddEmail that returned an id (the clock at
\* `now`, the time of the call), FindEmails(recipient) with the default
\* limit returns the new email with the fields given, the three flags 0 and
\* a send timestamp not earlier than the time of the call.
C8_RoundTrip ==
    (last.op = "AddEmail" /\ ~last.err) =>
        \A r \in buscar_emails(Store, Some(last.destinatario), None, None, DefaultLimit).rets :
            \E i \in 1..Len(r) :
                /\ RoundTrip(r[i])
                /\ r[i].data_envio * TicksPerSecond >= now

\* the other stored emails the search for the new email's recipient matches
\* and that are not older than the new email
NotOlderOthers ==
    LET new == CHOOSE e \in disk.emails : Some(e.id) = last.ret
    IN  {e \in disk.emails :
            /\ e.id # new.id
            /\ (last.destinatario = "" \/ e.destinatario = last.destinatario)
            /\ e.data_envio >= new.data_envio}

\* C8 amended: right after an AddEmail that returned an id,
\* FindEmails(recipient, limit) returns the new email with the fields given
\* and the three flags 0 whenever the limit is negative or greater than the
\* number of other matching emails that are not older than the new one, and
\* its send timestamp is not earlier than the time of the call cut to whole
\* seconds.
C8_RoundTripWithinLimit ==
    (last.op = "AddEmail" /\ ~last.err) =>
        \A limit \in Limits :
            (limit < 0 \/ limit > Cardinality(NotOlderOthers)) =>
                \A r \in buscar_emails(Store, Some(last.destinatario), None, None, limit).rets :
                    \E i \in 1..Len(r) :
                        /\ RoundTrip(r[i])
                        /\ r[i].data_envio >= now \div TicksPerSecond

\* an AddEmail with a category, called between two whole seconds, added a
\* second email to the recipient of an older one
C8_Witness ==
    /\ last.op = "AddEmail"
    /\ ~last.err
    /\ ~IsNone(last.categoria_id)
    /\ now % TicksPerSecond # 0
    /\ \E e \in disk.emails :
         /\ Some(e.id) # last.ret
         /\ e.destinatario = last.destinatario
         /\ e.data_envio = now \div TicksPerSecond

Rows(q) == {q[i] : i \in 1..Len(q)}

\* C9 as claimed: every email FindEmails(read=false) returns is unread and
\* is among the emails FindEmails() with no filter and the same limit returns
\* (read in the claim's favour: among the emails of some result the
\* unfiltered call may return, however it orders the rows that tie).
C9_UnreadWithinUnfiltered ==
    Calling =>
      \A limit \in Limits :
        \A u \in obter_emails_nao_lidos(Store, limit).rets :
          /\ \A r \in Rows(u) : r.lido = 0
          /\ \E a \in buscar_emails(Store, None, None, None, limit).rets :
               Rows(u) \subseteq Rows(a)

\* C9 amended: every email FindEmails(read=false) returns is unread; it is
\* among the emails FindEmails() with no filter and the same limit returns
\* when that limit is negative (no limit) or not smaller than the number of
\* stored emails, whichever result the unfiltered call returns.
C9_UnreadWithinUnfilteredUnlimited ==
    Calling =>
      \A limit \in Limits :
        \A u \in obter_emails_nao_lidos(Store, limit).rets :
          /\ \A r \in Rows(u) : r.lido = 0
          /\ (limit < 0 \/ limit >= Cardinality(disk.emails)) =>
               \A a \in buscar_emails(Store, None, None, None, limit).rets :
                 Rows(u) \subseteq Rows(a)

\* UnreadEmails with a limit of 2 returned the one unread email of two stored
C9_Witness ==
    /\ last.op = "UnreadEmails"
    /\ last.limit = 2
    /\ Len(Val(last.ret)) = 1
    /\ Cardinality(disk.emails) = 2
    /\ \E e \in disk.emails : e.lido = 1

Sorted(q) == \A i, j \in 1..Len(q) : i < j => q[i].data_envio >= q[j].data_envio

\* no stored email that q leaves out is newer than one q holds
Newest(q) ==
    \A e \in disk.emails :
        e.id \notin Ids(Rows(q)) => \A r \in Rows(q) : e.data_envio <= r.data_envio

\* C10 as claimed: for every integer limit N, FindEmails with no filter
\* returns at most N emails (for a negative N: none), newest first, and no
\* email left out is newer than one returned.
C10_AtMostLimitNewestFirst ==
    Calling =>
      \A limit \in Limits :
        \A q \in buscar_emails(Store, None, None, None, limit).rets :
          /\ Len(q) <= (IF limit < 0 THEN 0 ELSE limit)
          /\ Sorted(q)
          /\ Newest(q)

\* C10 amended: for every limit N >= 0, FindEmails with no filter returns
\* min(N, number of stored emails) emails, newest first, no email left out
\* newer than one returned; for a negative N it returns every stored email,
\* newest first.
C10_NonNegativeLimitNewestFirst ==
    Calling =>
      \A limit \in Limits :
        \A q \in buscar_emails(Store, None, None, None, limit).rets :
          /\ limit >= 0 => Len(q) = Min(limit, Cardinality(disk.emails))
          /\ limit < 0 => Ids(Rows(q)) = Ids(disk.emails)
          /\ Cardinality(Ids(Rows(q))) = Len(q)
          /\ Sorted(q)
          /\ Newest(q)

\* FindEmails with no filter and limit 1 returned the newer of two stored emails
C10_Witness ==
    /\ last.op = "FindEmails"
    /\ IsNone(last.destinatario) /\ IsNone(last.categoria_id) /\ IsNone(last.lido)
    /\ last.limit = 1
    /\ Len(Val(last.ret)) = 1
    /\ \E e \in disk.emails : e.data_envio < Val(last.ret)[1].data_envio

\* the thread that takes the step, when one does
Acts(t) == threads'[t] # threads[t]

\* the ids of the emails the threads other than t have inserted and not yet
\* committed
PendingOfOthers(t) ==
    {Val(threads[u].ret) : u \in {v \in ThreadIds :
        /\ v # t
        /\ threads[v].pc = "commit"
        /\ threads[v].op = "AddEmail"}}

\* C11: with two threads calling the store, a call of AddEmail that returns
\* an id has its email committed in the store at its return, and a call that
\* raises removes no email another thread's unfinished call has written.
C11_ThreadsSerializable ==
    [][\A t \in ThreadIds :
         (Acts(t) /\ threads'[t].pc = "done") =>
            IF threads'[t].err
            THEN PendingOfOthers(t) \cap Ids(view.emails) \subseteq Ids(view'.emails)
            ELSE threads'[t].op = "AddEmail"
                    => Val(threads'[t].ret) \in Ids(disk'.emails)]_vars

\* C12: the counts a Statistics call returns are the counts of one database
\* among those the call has read, also when another thread's call runs
\* between its four SELECTs.
C12_StatisticsAtomic ==
    \A t \in ThreadIds :
        (/\ threads[t].pc \in {"commit", "done"}
         /\ threads[t].op = "Statistics"
         /\ ~IsNone(threads[t].ret))
        => \E db \in threads[t].seen : Val(threads[t].ret) \in Estatisticas(db)

\* C13 as claimed: a PurgeOlderThan(days) that returns, days not negative,
\* deletes exactly the emails whose send timestamp is before the time of the
\* call less `days` days, returns their number and leaves the other emails,
\* the categories and the users as they were.
C13_PurgeBeforeNow ==
    [][(last'.op = "PurgeOlderThan" /\ Calling /\ ~last'.err /\ last'.dias >= 0)
       => LET old == {e \in disk.emails :
                        e.data_envio * TicksPerSecond < now - last'.dias * TicksPerDay}
          IN  /\ disk'.emails = disk.emails \ old
              /\ last'.ret = Some(Cardinality(old))
              /\ disk'.categorias = disk.categorias
              /\ disk'.usuarios = disk.usuarios]_vars

\* C13 amended: a PurgeOlderThan(days) that returns, days not negative,
\* deletes exactly the emails whose send timestamp is before the second of
\* the call less `days` days (so PurgeOlderThan(0) keeps the emails of the
\* current second); with negative days it deletes nothing; it returns the
\* number of emails deleted and leaves the other emails, the categories and
\* the users as they were.
C13_PurgeBeforeCurrentSecond ==
    [][(last'.op = "PurgeOlderThan" /\ Calling /\ ~last'.err)
       => LET old == IF last'.dias < 0 THEN {}
                     ELSE {e \in disk.emails :
                             e.data_envio < now \div TicksPerSecond
                                              - last'.dias * SecondsPerDay}
          IN  /\ disk'.emails = disk.emails \ old
              /\ view' = disk'
              /\ last'.ret = Some(Cardinality(old))
              /\ disk'.categorias = disk.categorias
              /\ disk'.usuarios = disk.usuarios]_vars

\* PurgeOlderThan(1) deleted one email, a day and a second old, and kept one
\* that is exactly a day old, next to a stored user and a stored category
C13_Witness ==
    /\ last.op = "PurgeOlderThan"
    /\ last.dias = 1
    /\ last.ret = Some(1)
    /\ \E e \in disk.emails : e.data_envio = now \div TicksPerSecond - SecondsPerDay
    /\ disk.usuarios # {}
    /\ disk.categorias # {}

\* text occurs in str, letters compared without regard to case
RECURSIVE Prefix(_, _)
Prefix(text, str) ==
    \/ text = <<>>
    \/ /\ str # <<>>
       /\ Fold(Head(text)) = Fold(Head(str))
       /\ Prefix(Tail(text), Tail(str))

RECURSIVE Occurs(_, _)
Occurs(text, str) ==
    \/ Prefix(text, str)
    \/ str # <<>> /\ Occurs(text, Tail(str))

\* C14: every email SearchEmails(text, limit) returns has the text in its
\* subject or in its body; and when the text is in the body of exactly one
\* stored email and in no other subject or body, a search with a limit that
\* lets an email through returns exactly that email.
C14_SearchBySubstring ==
    last.op = "SearchEmails" =>
        /\ \A r \in ResultRows(last.ret) :
             Occurs(last.texto, r.assunto) \/ Occurs(last.texto, r.corpo)
        /\ \A e \in disk.emails :
             (/\ Occurs(last.texto, e.corpo)
              /\ ~Occurs(last.texto, e.assunto)
              /\ \A x \in disk.emails \ {e} :
                   ~Occurs(last.texto, x.assunto) /\ ~Occurs(last.texto, x.corpo)
              /\ last.limit # 0)
             => Ids(ResultRows(last.ret)) = {e.id}

\* C15 as claimed: right after construction the store holds no live
\* connection.
C15_ConstructOpensNothing == last.op = "Construct" => ~conn

\* the operations that do not touch the database
NoDatabaseOps == {"none", "Close", "Enter", "Exit"}

\* C15 amended: construction runs init_database, which opens the
\* connection: right after construction the store holds a live connection
\* with foreign keys enforced and nothing uncommitted; a live connection is
\* given up only by Close or by leaving a scope, and the store holds none
\* only from then until the next call that reads or writes the database.
C15_ConstructOpens ==
    /\ [](/\ last.op = "Construct" => (conn /\ fk /\ view = disk)
          /\ ~conn => last.op \in NoDatabaseOps)
    /\ [][(conn /\ ~conn') => last'.op \in {"Close", "Exit"}]_vars

\* the store right after construction, the connection live
C15_Witness == last.op = "Construct" /\ conn /\ fk

\* C16: leaving the scope closes the connection, on every way out: when the
\* body ends, when the body raises by itself, and when a call of the body
\* has raised; an exception of the body is raised again by the exit; the
\* stored data stay as they were.
C16_ExitCloses ==
    [][last'.op = "Exit"
       => /\ ~conn'
          /\ disk' = disk
          /\ last'.err = last'.exc
          /\ last.err => last'.err]_vars

\* the scope was left because an AddEmail of the body raised: the connection
\* that was live is closed, the exception raised again, an email is stored
C16_Witness ==
    /\ last.op = "Exit"
    /\ last.after = "AddEmail"
    /\ last.wasOpen
    /\ last.err
    /\ ~conn
    /\ disk.emails # {}

AddOps == {"AddUser", "AddCategory", "AddEmail"}

TableOf(op, db) ==
    CASE op = "AddUser" -> db.usuarios
      [] op = "AddCategory" -> db.categorias
      [] op = "AddEmail" -> db.emails

UniqueIds(rows) == \A r1, r2 \in rows : r1.id = r2.id => r1 = r2

\* the fields of an email that no operation may change
Fixed(e) == <<e.id, e.data_envio, e.remetente, e.destinatario, e.assunto, e.corpo,
              e.categoria_id>>

\* C17: no two rows of a table hold the same id; an email stored before and
\* after a step keeps its send timestamp, sender, recipient, subject, body
\* and category reference; an Add that returns gives an id no row of its
\* table held before, held by exactly the one new row after.
C17_IdsAndTimestampsFixed ==
    /\ [](\A db \in {disk, view} :
            UniqueIds(db.usuarios) /\ UniqueIds(db.categorias) /\ UniqueIds(db.emails))
    /\ [][\A e1 \in disk.emails, e2 \in disk'.emails :
            e1.id = e2.id => Fixed(e1) = Fixed(e2)]_vars
    /\ [][(last'.op \in AddOps /\ Calling /\ ~last'.err)
          => /\ Val(last'.ret) \notin Ids(TableOf(last'.op, disk))
             /\ Ids(TableOf(last'.op, disk')) =
                  Ids(TableOf(last'.op, disk)) \cup {Val(last'.ret)}]_vars

\* a MarkRead returned true on an email sent in an earlier second than the
\* second of the call, next to another stored email
C17_Witness ==
    /\ last.op = "MarkRead"
    /\ last.ret = Some(TRUE)
    /\ Cardinality(disk.emails) = 2
    /\ \E e \in disk.emails :
         e.id = last.id /\ e.lido = 1 /\ e.data_envio < now \div TicksPerSecond

\* C18: an email that is read stays read and an email that is archived
\* stays archived through every step that keeps the email; an email leaves
\* the store only by a DeleteEmail or a PurgeOlderThan.
C18_ReadAndArchivedStay ==
    /\ [][\A e1 \in disk.emails, e2 \in disk'.emails :
            e1.id = e2.id =>
              /\ e1.lido = 1 => e2.lido = 1
              /\ e1.arquivado = 1 => e2.arquivado = 1]_vars
    /\ [][Ids(disk.emails) \subseteq Ids(disk'.emails)
          \/ last'.op \in {"DeleteEmail", "PurgeOlderThan"}]_vars

\* an Archive returned true on an email that is read, archived before the
\* call or by it, while a DeleteEmail has removed the other email stored
C18_Witness ==
    /\ last.op = "Archive"
    /\ last.ret = Some(TRUE)
    /\ disk.seq.emails = 2
    /\ Cardinality(disk.emails) = 1
    /\ \A e \in disk.emails : e.lido = 1 /\ e.arquivado = 1

QueryOps == {"FindEmails", "SearchEmails", "UnreadEmails", "ImportantEmails",
             "ListCategories", "Statistics"}

\* C19: no step of a query changes the stored data, and none commits or
\* discards what a mutating call of another thread has written and not yet
\* committed: the database file and what the connection holds stay as they
\* were.
C19_QueriesReadOnly ==
    [][\A t \in ThreadIds :
         (Acts(t) /\ threads'[t].pc # "idle" /\ threads'[t].op \in QueryOps)
            => (disk' = disk /\ view' = view)]_vars

====
